---- MODULE Spec2Model ----
(***************************************************************************)
(* Simple Computer Simulator (src/sample1.jsx): RAM, Bus, CPU, the tiny    *)
(* assembler and the React driver that schedules cpu.step().               *)
(*                                                                         *)
(* A nullable JavaScript value is modelled as a sequence: <<>> is null and *)
(* <<v>> is the value v.                                                   *)
(***************************************************************************)
EXTENDS Integers, Sequences, FiniteSets, TLC

VARIABLES
    mem,            \* ram.data
    PC, ACC, IR,    \* cpu registers
    zero,           \* cpu.flags.zero
    halted,         \* cpu.halted
    lines,          \* bus.lines
    pendingClears,  \* setTimeout(() => bus.clear(), 300) callbacks not yet fired
    mounted,        \* the component's mount effects have run
    running, speed, \* React state of the driver
    intervalRef,    \* intervalRef.current
    timers,         \* ids of the live setInterval timers
    nextId,         \* id the next setInterval call returns
    deps,           \* [running, speed] the run-mode effect last ran with
    op,             \* name of the last operation performed
    args,           \* arguments of the last operation
    ret,            \* value returned by the last step() / read()
    trace,          \* bus notifications and onStep calls of the last operation, in order
    nsteps,         \* step() calls since the last cpu.reset()
    aluSinceReset,  \* a LOAD/ADD/SUB has executed since the last cpu.reset()
    nwrites,        \* loadProgram() and ram.write() calls made by the driver
    listeners,      \* bus.listeners: the k-th callback registered is named k
    refm            \* the reference machine that keeps its PC reduced modulo the capacity

cpuVars == <<PC, ACC, IR, zero, halted>>
uiVars  == <<mounted, running, speed, intervalRef, timers, nextId, deps>>
vars == <<mem, PC, ACC, IR, zero, halted, lines, pendingClears, mounted, running,
          speed, intervalRef, timers, nextId, deps, op, args, ret, trace, nsteps,
          aluSinceReset, nwrites, listeners, refm>>
auxVars == <<listeners, refm>>

----------------------------------------------------------------------------
(* Program constants *)

NOP   == 0
LOAD  == 1
STORE == 2
ADD   == 3
SUB   == 4
JMP   == 5
JZ    == 6
OUT   == 7
HALT  == 255

RAMSize == 64
DefaultSpeed == 600
MinSpeed == 100

sampleProgram == <<LOAD, 10, ADD, 11, OUT, STORE, 12, HALT>>
\* Object.keys(sampleData) order: ascending integer keys
sampleData == << <<10, 7>>, <<11, 3>> >>

(* Model bounds *)

MaxSteps == 6      \* step() calls explored between two cpu.reset() calls
MaxPending == 2    \* deferred bus clears outstanding at once
MaxTimers == 3     \* setInterval calls explored
MaxWrites == 2     \* loadProgram() and ram.write() calls of the driver explored

----------------------------------------------------------------------------
(* JavaScript arithmetic *)

\* a % n of JavaScript: the remainder takes the sign of the dividend
JsRem(a, n) == IF a >= 0 THEN a % n ELSE -((-a) % n)

\* value & 0xff on an integer: the low eight bits of the two's complement
Mask8(value) == value % 256

----------------------------------------------------------------------------
(* RAM *)

Wrap(addr) == JsRem(JsRem(addr, RAMSize) + RAMSize, RAMSize)

RAMReadClamped(m, addr) ==
    m[IF addr < 0 THEN 0 ELSE IF addr > RAMSize - 1 THEN RAMSize - 1 ELSE addr]

RAMRead(m, addr) == m[Wrap(addr)]

RAMWriteNoMask(m, addr, value) == [m EXCEPT ![Wrap(addr)] = value]

RAMWrite(m, addr, value) == [m EXCEPT ![Wrap(addr)] = Mask8(value)]

RAMFill(m, value) == [i \in DOMAIN m |-> value]

WriteAllFromZero(m, program, start, i) ==
    [c \in DOMAIN m |-> IF c + 1 \in i..Len(program) THEN Mask8(program[c + 1]) ELSE m[c]]

RECURSIVE WriteAll(_, _, _, _)
\* for (i = 0; i < program.length; i++) ram.write(start + i, program[i])
WriteAll(m, program, start, i) ==
    IF i > Len(program) THEN m
    ELSE WriteAll(RAMWrite(m, start + (i - 1), program[i]), program, start, i + 1)

RECURSIVE WriteData(_, _, _)
\* Object.keys(data).forEach((k) => ram.write(parseInt(k), data[k]))
WriteData(m, data, i) ==
    IF i > Len(data) THEN m
    ELSE WriteData(RAMWrite(m, data[i][1], data[i][2]), data, i + 1)

----------------------------------------------------------------------------
(* Bus *)

Fields == {"addr", "data", "control"}

NoLines == [addr |-> <<>>, data |-> <<>>, control |-> <<>>]

\* this.lines = { ...this.lines, ...packet }
BusMerge(l, packet) ==
    [f \in Fields |-> IF f \in DOMAIN packet THEN <<packet[f]>> ELSE l[f]]

NotifyReversed(ls) == [i \in 1..Len(ls) |-> ls[Len(ls) + 1 - i]]

\* this.listeners.forEach((cb) => cb(this.lines)): the callbacks in call order
Notify(ls) == [i \in 1..Len(ls) |-> ls[i]]

\* one _notify() call: the lines handed to every listener, with the fields
\* of the packet that caused it (none for clear) and the callbacks called
BusEv(l, sent) == [ev |-> "bus", lines |-> l, sent |-> sent, action |-> <<>>,
                   pc |-> 0, acc |-> 0, ir |-> 0, zero |-> FALSE,
                   calls |-> Notify(listeners)]

\* one onStep() call with its snapshot
TickEv(action, pc, acc, ir, z) ==
    [ev |-> "tick", lines |-> NoLines, sent |-> {}, action |-> action,
     pc |-> pc, acc |-> acc, ir |-> ir, zero |-> z, calls |-> << >>]

RECURSIVE SendUpTo(_, _, _)
\* the lines after bus.send(packets[1]), ..., bus.send(packets[n])
SendUpTo(l, packets, n) ==
    IF n = 0 THEN l
    ELSE BusMerge(SendUpTo(l, packets, n - 1), packets[n])

\* the notifications of those sends, in order
SendEvents(l, packets) ==
    [i \in 1..Len(packets) |-> BusEv(SendUpTo(l, packets, i), DOMAIN packets[i])]

----------------------------------------------------------------------------
(* CPU *)

AdvanceWrapped(pc) == Wrap(pc + 1)

\* this.PC += 1 and this.PC++
Advance(pc) == pc + 1

AluAddOverwrite(acc, val) == Mask8(val)

AluAdd(acc, val) == Mask8(acc + val)

AluSubNoMask(acc, val) == acc - val

AluSub(acc, val) == Mask8(acc - val)

ZeroOfTruthy(acc) == acc # 0

\* this.flags.zero = this.ACC === 0
ZeroOf(acc) == acc = 0

CpuTickSkipHalt(action, pc, acc, ir, z) ==
    IF action[1] = "HALT" THEN << >> ELSE << TickEv(action, pc, acc, ir, z) >>

\* _tick(action): the onStep calls it makes
CpuTick(action, pc, acc, ir, z) == << TickEv(action, pc, acc, ir, z) >>

FetchPacket(pc) == [addr |-> pc, control |-> "FETCH"]

ReadPacket(addr) == [addr |-> addr, control |-> "READ"]

WritePacket(addr, acc) == [addr |-> addr, data |-> acc, control |-> "WRITE"]

JzTakenInverted(z) == ~z

\* if (this.flags.zero) this.PC = addr
JzTaken(z) == z

\* fetch, decode and execute of a step() on a CPU that is not halted:
\* the registers and memory after it, the packets it sends on the bus
\* and the action string given to _tick
Exec(m, pc, acc, z) ==
    LET instr == RAMRead(m, pc)
        pc1   == Advance(pc)
        addr  == RAMRead(m, pc1)
        pc2   == Advance(pc1)
        val   == RAMRead(m, addr)
        base  == [mem |-> m, PC |-> pc1, ACC |-> acc, IR |-> instr, zero |-> z,
                  halted |-> FALSE, packets |-> << FetchPacket(pc) >>,
                  action |-> << "NOP" >>, alu |-> FALSE]
    IN  CASE instr = NOP  -> base
          [] instr = LOAD ->
                [base EXCEPT !.PC = pc2, !.ACC = val, !.zero = ZeroOf(val),
                             !.packets = << FetchPacket(pc), ReadPacket(addr) >>,
                             !.action = << "LOAD", addr >>, !.alu = TRUE]
          [] instr = STORE ->
                [base EXCEPT !.PC = pc2, !.mem = RAMWrite(m, addr, acc),
                             !.packets = << FetchPacket(pc), WritePacket(addr, acc) >>,
                             !.action = << "STORE", addr >>]
          [] instr = ADD ->
                [base EXCEPT !.PC = pc2, !.ACC = AluAdd(acc, val),
                             !.zero = ZeroOf(AluAdd(acc, val)),
                             !.packets = << FetchPacket(pc), ReadPacket(addr) >>,
                             !.action = << "ADD", addr >>, !.alu = TRUE]
          [] instr = SUB ->
                [base EXCEPT !.PC = pc2, !.ACC = AluSub(acc, val),
                             !.zero = ZeroOf(AluSub(acc, val)),
                             !.packets = << FetchPacket(pc), ReadPacket(addr) >>,
                             !.action = << "SUB", addr >>, !.alu = TRUE]
          [] instr = JMP ->
                [base EXCEPT !.PC = addr, !.action = << "JMP", addr >>]
          [] instr = JZ ->
                IF JzTaken(z)
                     THEN [base EXCEPT !.PC = addr, !.action = << "JZ (taken)", addr >>]
                     ELSE [base EXCEPT !.PC = pc2, !.action = << "JZ (not taken)", addr >>]
          [] instr = OUT ->
                [base EXCEPT !.action = << "OUT", acc >>]
          [] instr = HALT ->
                [base EXCEPT !.halted = TRUE, !.action = << "HALT" >>]
          [] OTHER ->
                [base EXCEPT !.action = << "DATA", instr >>]

\* no call has returned yet
NoReturn == [type |-> "NONE"]

\* if (this.halted) return { type: "HALT" }
HaltSentinel == [type |-> "HALT"]

\* { pc: this.PC, acc: this.ACC, ir: this.IR, flags: { ...this.flags } }
Snapshot(pc, acc, ir, z) == [pc |-> pc, acc |-> acc, ir |-> ir, zero |-> z]

\* the step keeps the model within its bounds
StepBound == nsteps < MaxSteps /\ (halted \/ pendingClears < MaxPending)

\* step() on a halted CPU: the early return
CpuStepHalted ==
    /\ ret' = HaltSentinel
    /\ trace' = << >>
    /\ UNCHANGED <<mem, cpuVars, lines, pendingClears, aluSinceReset>>

\* step() past the early return
CpuStepRun ==
    LET r == Exec(mem, PC, ACC, zero)
    IN  /\ mem' = r.mem
        /\ PC' = r.PC
        /\ ACC' = r.ACC
        /\ IR' = r.IR
        /\ zero' = r.zero
        /\ halted' = r.halted
        /\ lines' = SendUpTo(lines, r.packets, Len(r.packets))
        /\ trace' = SendEvents(lines, r.packets)
                        \o CpuTick(r.action, r.PC, r.ACC, r.IR, r.zero)
        /\ pendingClears' = pendingClears + 1
        /\ ret' = Snapshot(r.PC, r.ACC, r.IR, r.zero)
        /\ aluSinceReset' = (aluSinceReset \/ r.alu)

CpuStepAlwaysRun ==
    /\ nsteps' = nsteps + 1
    /\ CpuStepRun

\* cpu.step()
CpuStep ==
    /\ nsteps' = nsteps + 1
    /\ IF halted THEN CpuStepHalted ELSE CpuStepRun

ResetRegsKeepHalted ==
    /\ PC' = 0
    /\ ACC' = 0
    /\ IR' = 0
    /\ zero' = FALSE
    /\ UNCHANGED halted
    /\ nsteps' = 0
    /\ aluSinceReset' = FALSE

\* cpu.reset()
ResetRegs ==
    /\ PC' = 0
    /\ ACC' = 0
    /\ IR' = 0
    /\ zero' = FALSE
    /\ halted' = FALSE
    /\ nsteps' = 0
    /\ aluSinceReset' = FALSE

FireClearWipesIR ==
    /\ pendingClears > 0
    /\ pendingClears' = pendingClears - 1
    /\ lines' = NoLines
    /\ IR' = 0
    /\ trace' = << BusEv(NoLines, {}) >>
    /\ op' = "clear"
    /\ args' = << >>
    /\ UNCHANGED <<mem, PC, ACC, zero, halted, uiVars, ret, nsteps, aluSinceReset, nwrites>>
    /\ UNCHANGED auxVars

\* the deferred () => this.bus.clear() fires
FireClear ==
    /\ pendingClears > 0
    /\ pendingClears' = pendingClears - 1
    /\ lines' = NoLines
    /\ trace' = << BusEv(NoLines, {}) >>
    /\ op' = "clear"
    /\ args' = << >>
    /\ UNCHANGED <<mem, cpuVars, uiVars, ret, nsteps, aluSinceReset, nwrites>>
    /\ UNCHANGED auxVars

\* the reference machine after construction
RefNew == [mem |-> [i \in 0..(RAMSize - 1) |-> 0], PC |-> 0, ACC |-> 0, IR |-> 0,
           zero |-> FALSE, halted |-> FALSE]

----------------------------------------------------------------------------
(* The state after construction: new RAM(64), new Bus(), new CPU(),        *)
(* useState(false), useState(600), useRef(null)                            *)

Init ==
    /\ mem = [i \in 0..(RAMSize - 1) |-> 0]
    /\ PC = 0 /\ ACC = 0 /\ IR = 0
    /\ zero = FALSE
    /\ halted = FALSE
    /\ lines = NoLines
    /\ pendingClears = 0
    /\ mounted = FALSE
    /\ running = FALSE
    /\ speed = DefaultSpeed
    /\ intervalRef = << >>
    /\ timers = {}
    /\ nextId = 1
    /\ deps = << >>
    /\ op = "new"
    /\ args = << >>
    /\ ret = NoReturn
    /\ trace = << >>
    /\ nsteps = 0
    /\ aluSinceReset = FALSE
    /\ nwrites = 0
    /\ listeners = << >>
    /\ refm = RefNew

----------------------------------------------------------------------------
(* The core driven through its public operations *)

\* inputs explored for loadProgram(program, start), ram.write(addr, value)
Programs == { << 257, 126, ADD, 62, -1 >>,
              << STORE, 62, SUB, 62, JZ, 70, 9 >> }
Starts == { 0, 62, -2 }
PokeAddrs == { -2 }
PokeValues == { 259, -1 }

\* cpu.step() called directly
Step ==
    /\ StepBound
    /\ CpuStep
    /\ op' = "step"
    /\ args' = << >>
    /\ UNCHANGED <<uiVars, nwrites>>
    /\ UNCHANGED auxVars

\* cpu.reset() called directly
Reset ==
    /\ ResetRegs
    /\ op' = "reset"
    /\ args' = << >>
    /\ trace' = << >>
    /\ UNCHANGED <<mem, lines, pendingClears, uiVars, ret, nwrites>>
    /\ UNCHANGED auxVars

LoadProgramResets(program, start) ==
    /\ nwrites < MaxWrites
    /\ nwrites' = nwrites + 1
    /\ mem' = WriteAll(mem, program, start, 1)
    /\ PC' = start
    /\ halted' = FALSE
    /\ op' = "loadProgram"
    /\ args' = << program, start >>
    /\ trace' = << >>
    /\ UNCHANGED <<ACC, IR, zero, lines, pendingClears, uiVars, ret, nsteps,
                   aluSinceReset>>
    /\ UNCHANGED auxVars

\* cpu.loadProgram(program, start)
LoadProgram(program, start) ==
    /\ nwrites < MaxWrites
    /\ nwrites' = nwrites + 1
    /\ mem' = WriteAll(mem, program, start, 1)
    /\ PC' = start
    /\ op' = "loadProgram"
    /\ args' = << program, start >>
    /\ trace' = << >>
    /\ UNCHANGED <<ACC, IR, zero, halted, lines, pendingClears, uiVars, ret, nsteps,
                   aluSinceReset>>
    /\ UNCHANGED auxVars

\* ram.write(addr, value) called by the driver
Write(addr, value) ==
    /\ nwrites < MaxWrites
    /\ nwrites' = nwrites + 1
    /\ mem' = RAMWrite(mem, addr, value)
    /\ op' = "write"
    /\ args' = << addr, value >>
    /\ trace' = << >>
    /\ UNCHANGED <<cpuVars, lines, pendingClears, uiVars, ret, nsteps, aluSinceReset>>
    /\ UNCHANGED auxVars

\* ram.read(addr) called by the driver
Read(addr) ==
    /\ ret' = RAMRead(mem, addr)
    /\ op' = "read"
    /\ args' = << addr >>
    /\ trace' = << >>
    /\ UNCHANGED <<mem, cpuVars, lines, pendingClears, uiVars, nsteps, aluSinceReset,
                   nwrites>>
    /\ UNCHANGED auxVars

\* ram.data.fill(0)
Fill ==
    /\ mem' = RAMFill(mem, 0)
    /\ op' = "fill"
    /\ args' = << >>
    /\ trace' = << >>
    /\ UNCHANGED <<cpuVars, lines, pendingClears, uiVars, ret, nsteps, aluSinceReset, nwrites>>
    /\ UNCHANGED auxVars

Next ==
    \/ Step
    \/ Reset
    \/ \E program \in Programs, start \in Starts : LoadProgram(program, start)
    \/ \E addr \in PokeAddrs, value \in PokeValues : Write(addr, value)
    \/ Fill
    \/ FireClear

Spec == Init /\ [][Next]_vars

----------------------------------------------------------------------------
(* The assembler.  A line is the sequence of its whitespace-separated      *)
(* tokens (ln.trim().split(/\s+/)) and a token is the sequence of its      *)
(* characters.                                                             *)

LowerAlpha == << "a", "b", "c", "d", "e", "f", "g", "h", "i", "j", "k", "l", "m",
                 "n", "o", "p", "q", "r", "s", "t", "u", "v", "w", "x", "y", "z" >>
UpperAlpha == << "A", "B", "C", "D", "E", "F", "G", "H", "I", "J", "K", "L", "M",
                 "N", "O", "P", "Q", "R", "S", "T", "U", "V", "W", "X", "Y", "Z" >>
DigitChars == << "0", "1", "2", "3", "4", "5", "6", "7", "8", "9" >>

UpperChar(c) ==
    IF \E i \in 1..Len(LowerAlpha) : LowerAlpha[i] = c
    THEN UpperAlpha[CHOOSE i \in 1..Len(LowerAlpha) : LowerAlpha[i] = c]
    ELSE c

\* parts[0].toUpperCase()
ToUpperCase(tok) == [i \in 1..Len(tok) |-> UpperChar(tok[i])]

IsDigit(c) == \E i \in 1..Len(DigitChars) : DigitChars[i] = c

DigitVal(c) == (CHOOSE i \in 1..Len(DigitChars) : DigitChars[i] = c) - 1

RECURSIVE ParseDigits(_, _, _)
\* the value of the longest run of decimal digits of tok from position i on
ParseDigits(tok, i, acc) ==
    IF i > Len(tok) \/ ~IsDigit(tok[i]) THEN acc
    ELSE ParseDigits(tok, i + 1, 10 * acc + DigitVal(tok[i]))

\* parseInt(tok) for a token that starts with an optional sign and a digit
\* (a token without a leading digit gives NaN and is not among the inputs)
ParseInt(tok) ==
    IF tok[1] = "-" THEN -ParseDigits(tok, 2, 0)
    ELSE IF tok[1] = "+" THEN ParseDigits(tok, 2, 0)
    ELSE ParseDigits(tok, 1, 0)

\* Object.entries(OPCODES)
Mnemonics == << << <<"N","O","P">>, NOP >>,
                << <<"L","O","A","D">>, LOAD >>,
                << <<"S","T","O","R","E">>, STORE >>,
                << <<"A","D","D">>, ADD >>,
                << <<"S","U","B">>, SUB >>,
                << <<"J","M","P">>, JMP >>,
                << <<"J","Z">>, JZ >>,
                << <<"O","U","T">>, OUT >>,
                << <<"H","A","L","T">>, HALT >> >>

\* mapping[op] !== undefined
IsMnemonic(name) == \E i \in 1..Len(Mnemonics) : Mnemonics[i][1] = name

\* mapping[op]
OpcodeOf(name) == Mnemonics[CHOOSE i \in 1..Len(Mnemonics) : Mnemonics[i][1] = name][2]

DataPutFirstWins(data, addr, val) ==
    IF \E i \in 1..Len(data) : data[i][1] = addr
    THEN data
    ELSE IF addr < 0 THEN Append(data, << addr, val >>)
    ELSE LET before == SelectSeq(data, LAMBDA e : e[1] >= 0 /\ e[1] < addr)
             after  == SelectSeq(data, LAMBDA e : e[1] < 0 \/ e[1] > addr)
         IN  before \o << << addr, val >> >> \o after

\* a JavaScript object with integer keys is the sequence of its <<key, value>>
\* entries in property order: the keys that are array indices (0, 1, 2, ...)
\* ascending, then the other keys (negative numbers) in insertion order.
\* data[addr] = val
DataPut(data, addr, val) ==
    IF \E i \in 1..Len(data) : data[i][1] = addr
    THEN [i \in 1..Len(data) |-> IF data[i][1] = addr THEN << addr, val >> ELSE data[i]]
    ELSE IF addr < 0 THEN Append(data, << addr, val >>)
    ELSE LET before == SelectSeq(data, LAMBDA e : e[1] >= 0 /\ e[1] < addr)
             after  == SelectSeq(data, LAMBDA e : e[1] < 0 \/ e[1] > addr)
         IN  before \o << << addr, val >> >> \o after

RECURSIVE AssembleFrom(_, _, _, _)
\* assemblies.forEach(...) from line i on, with out and data so far
AssembleFrom(assemblies, i, out, data) ==
    IF i > Len(assemblies) THEN [prog |-> out, data |-> data]
    ELSE LET parts == assemblies[i]
         IN  IF Len(parts) = 0 \/ Len(parts[1]) = 0
             THEN AssembleFrom(assemblies, i + 1, out, data)
             ELSE LET name == ToUpperCase(parts[1])
                  IN  IF name = <<"D","A","T","A">>
                      THEN AssembleFrom(assemblies, i + 1, out,
                               DataPut(data, ParseInt(parts[2]), ParseInt(parts[3])))
                      ELSE IF IsMnemonic(name)
                      THEN AssembleFrom(assemblies, i + 1,
                               IF Len(parts) >= 2
                               THEN out \o << OpcodeOf(name), ParseInt(parts[2]) >>
                               ELSE Append(out, OpcodeOf(name)),
                               data)
                      ELSE AssembleFrom(assemblies, i + 1, out, data)

quickAssemble(assemblies) == AssembleFrom(assemblies, 1, << >>, << >>)

\* the text the assembler box starts with
ExampleText ==
    << << <<"L","O","A","D">>, <<"1","0">> >>,
       << <<"A","D","D">>, <<"1","1">> >>,
       << <<"O","U","T">> >>,
       << <<"S","T","O","R","E">>, <<"1","2">> >>,
       << <<"H","A","L","T">> >>,
       << <<"D","A","T","A">>, <<"1","0">>, <<"7">> >>,
       << <<"D","A","T","A">>, <<"1","1">>, <<"3">> >> >>

\* a text whose data directives fall inside and outside the program bytes
OverlapText ==
    << << <<"l","o","a","d">>, <<"3">> >>,
       << <<"H","a","l","t">> >>,
       << <<"D","A","T","A">>, <<"1">>, <<"7">> >>,
       << <<"F","O","O">>, <<"9">> >>,
       << <<"d","a","t","a">>, <<"3">>, <<"0">> >>,
       << <<"D","A","T","A">>, <<"-","1">>, <<"3","0","0">> >>,
       << <<"D","A","T","A">>, <<"1">>, <<"5">> >> >>

Texts == { ExampleText, OverlapText }

\* const { prog, data } = quickAssemble(lines), for each text explored
Assembled == [text \in Texts |-> quickAssemble(text)]

----------------------------------------------------------------------------
(* The React driver *)

Speeds == { MinSpeed, DefaultSpeed }

ClearIntervalNoop(ts, ref) == ts

\* clearInterval(intervalRef.current)
ClearInterval(ts, ref) == ts \ { ref[i] : i \in DOMAIN ref }

\* the component mounts: its effects run in order
Mount ==
    /\ ~mounted
    /\ mounted' = TRUE
    /\ ResetRegs
    /\ mem' = WriteData(WriteAll(mem, sampleProgram, 0, 1), sampleData, 1)
    /\ timers' = ClearInterval(timers, intervalRef)
    /\ deps' = << running, speed >>
    /\ op' = "mount"
    /\ args' = << >>
    /\ trace' = << >>
    /\ UNCHANGED <<lines, pendingClears, running, speed, intervalRef, nextId, ret, nwrites>>
    /\ listeners' = Append(listeners, Len(listeners) + 1)
    /\ UNCHANGED refm

\* the Run/Pause button: setRunning((r) => !r)
ToggleRun ==
    /\ mounted
    /\ running' = ~running
    /\ op' = "toggleRun"
    /\ args' = << >>
    /\ trace' = << >>
    /\ UNCHANGED <<mem, cpuVars, lines, pendingClears, mounted, speed, intervalRef, timers,
                   nextId, deps, ret, nsteps, aluSinceReset, nwrites>>
    /\ UNCHANGED auxVars

\* the speed slider: setSpeed(parseInt(e.target.value))
SetSpeed(s) ==
    /\ mounted
    /\ s # speed
    /\ speed' = s
    /\ op' = "setSpeed"
    /\ args' = << s >>
    /\ trace' = << >>
    /\ UNCHANGED <<mem, cpuVars, lines, pendingClears, mounted, running, intervalRef, timers,
                   nextId, deps, ret, nsteps, aluSinceReset, nwrites>>
    /\ UNCHANGED auxVars

\* React re-runs the run-mode effect after [running, speed] changed: the
\* cleanup of the previous run, then the effect body
RunEffect ==
    /\ mounted
    /\ deps # << running, speed >>
    /\ deps' = << running, speed >>
    /\ IF running
       THEN /\ nextId <= MaxTimers
            /\ timers' = ClearInterval(timers, intervalRef) \cup { nextId }
            /\ intervalRef' = << nextId >>
            /\ nextId' = nextId + 1
       ELSE /\ timers' = ClearInterval(ClearInterval(timers, intervalRef), intervalRef)
            /\ UNCHANGED <<intervalRef, nextId>>
    /\ op' = "effect"
    /\ args' = << >>
    /\ trace' = << >>
    /\ UNCHANGED <<mem, cpuVars, lines, pendingClears, mounted, running, speed, ret, nsteps,
                   aluSinceReset, nwrites>>
    /\ UNCHANGED auxVars

StepAndContinue ==
    /\ StepBound
    /\ CpuStep
    /\ UNCHANGED running
    /\ UNCHANGED <<mounted, speed, intervalRef, timers, nextId, deps, nwrites>>
    /\ UNCHANGED auxVars

\* const state = cpu.step(); if (cpu.halted) setRunning(false);
StepAndStop ==
    /\ StepBound
    /\ CpuStep
    /\ running' = IF halted' THEN FALSE ELSE running
    /\ UNCHANGED <<mounted, speed, intervalRef, timers, nextId, deps, nwrites>>
    /\ UNCHANGED auxVars

\* a live interval timer fires
IntervalTick(id) ==
    /\ id \in timers
    /\ StepAndStop
    /\ op' = "tick"
    /\ args' = << id >>

\* the Step button
stepOnce ==
    /\ mounted
    /\ StepAndStop
    /\ op' = "stepOnce"
    /\ args' = << >>

\* the Reset button
resetAll ==
    /\ mounted
    /\ ResetRegs
    /\ mem' = WriteData(WriteAll(RAMFill(mem, 0), sampleProgram, 0, 1), sampleData, 1)
    /\ lines' = NoLines
    /\ trace' = << BusEv(NoLines, {}) >>
    /\ op' = "resetAll"
    /\ args' = << >>
    /\ UNCHANGED <<pendingClears, uiVars, ret, nwrites>>
    /\ UNCHANGED auxVars

\* the memory Assemble & Load leaves for the assembled prog and data
AssembleLoad(m, prog, data) ==
    WriteAll(WriteData(WriteAll(RAMFill(m, 0), prog, 0, 1), data, 1), prog, 0, 1)

\* the Assemble & Load button on the lines of the text box
onAssemble(assemblies) ==
    /\ mounted
    /\ LET r == Assembled[assemblies]
       IN  mem' = AssembleLoad(mem, r.prog, r.data)
    /\ ResetRegs
    /\ op' = "assemble"
    /\ args' = << assemblies >>
    /\ trace' = << >>
    /\ UNCHANGED <<lines, pendingClears, uiVars, ret, nwrites>>
    /\ UNCHANGED auxVars

NextUI ==
    \/ Mount
    \/ ToggleRun
    \/ \E s \in Speeds : SetSpeed(s)
    \/ RunEffect
    \/ \E id \in timers : IntervalTick(id)
    \/ stepOnce
    \/ resetAll
    \/ \E text \in Texts : onAssemble(text)
    \/ FireClear

SpecUI == Init /\ [][NextUI]_vars

\* setInterval keeps calling its callback while the timer is live, and React
\* runs an effect whose dependencies changed after the render that changed them
TimersFire == WF_vars(\E id \in 1..MaxTimers : IntervalTick(id))
EffectsRun == WF_vars(RunEffect)

\* the driver running the sample program while nobody resets or reloads it
NextRun ==
    \/ Mount
    \/ ToggleRun
    \/ \E s \in Speeds : SetSpeed(s)
    \/ RunEffect
    \/ \E id \in timers : IntervalTick(id)
    \/ stepOnce
    \/ FireClear

SpecRun == Init /\ [][NextRun]_vars /\ TimersFire /\ EffectsRun

----------------------------------------------------------------------------
(* The memory alone: one write into a zeroed memory, read back at the      *)
(* congruent addresses                                                     *)

AddrSpan == 2      \* addresses explored reach AddrSpan capacities off either end

RamAddrs == (-(AddrSpan * RAMSize) - 1)..(AddrSpan * RAMSize + 1)
RamValues == { -257, -256, -255, -1, 0, 1, 7, 255, 256, 257, 511, 512 }
Congruent == { -1, 0, 1 }

WriteFresh ==
    /\ op \in { "new", "fill" }
    /\ \E addr \in RamAddrs, value \in RamValues : Write(addr, value)

ReadBack ==
    /\ op = "write"
    /\ \E k \in Congruent : Read(args[1] + k * RAMSize)

NextRAM ==
    \/ WriteFresh
    \/ ReadBack
    \/ Fill

SpecRAM == Init /\ [][NextRAM]_vars

----------------------------------------------------------------------------
(* The arithmetic instructions alone: every accumulator value against      *)
(* every operand value.  The initial states are those reached by           *)
(* reset(), an optional LOAD of the accumulator value and                  *)
(* loadProgram([opcode, 3, HALT, value], 0).                               *)

AluProgram(opcode, value) == << opcode, 3, HALT, value >>

InitALU ==
    \E opcode \in { LOAD, ADD, SUB }, value \in 0..255, a \in 0..255, loaded \in BOOLEAN :
        /\ (a # 0 => loaded)
        /\ mem = WriteAll([i \in 0..(RAMSize - 1) |-> 0], AluProgram(opcode, value), 0, 1)
        /\ PC = 0
        /\ ACC = a
        /\ IR = IF loaded THEN LOAD ELSE 0
        /\ zero = (loaded /\ a = 0)
        /\ halted = FALSE
        /\ lines = NoLines
        /\ pendingClears = 0
        /\ mounted = FALSE
        /\ running = FALSE
        /\ speed = DefaultSpeed
        /\ intervalRef = << >>
        /\ timers = {}
        /\ nextId = 1
        /\ deps = << >>
        /\ op = "loadProgram"
        /\ args = << AluProgram(opcode, value), 0 >>
        /\ ret = IF loaded THEN Snapshot(2, a, LOAD, a = 0) ELSE NoReturn
        /\ trace = << >>
        /\ nsteps = IF loaded THEN 1 ELSE 0
        /\ aluSinceReset = loaded
        /\ nwrites = IF loaded THEN 2 ELSE 1
        /\ listeners = << >>
        /\ refm = RefNew

\* the first step() after the load executes the arithmetic instruction
AluStep ==
    /\ op = "loadProgram"
    /\ Step

NextALU == AluStep

SpecALU == InitALU /\ [][NextALU]_vars

----------------------------------------------------------------------------
(* Program loading: the CPU with loadProgram() at any time between its     *)
(* steps and resets, and no other writer of the memory.                    *)

NextLoad ==
    \/ \E program \in Programs, start \in Starts : LoadProgram(program, start)
    \/ Step
    \/ Reset
    \/ FireClear

SpecLoad == Init /\ [][NextLoad]_vars

----------------------------------------------------------------------------
(* The conditional jump: a freshly reset CPU is loaded at address 0 with   *)
(* a program around a JZ and stepped.                                      *)

\* LOAD of a zero cell, then JZ 6 over a HALT into a loop
JumpScenario == << LOAD, 5, JZ, 6, HALT, NOP, NOP, JMP, 2 >>

\* the same program with a LOAD of a non-zero cell
JumpNotTaken == << LOAD, 1, JZ, 6, HALT, NOP, NOP, JMP, 2 >>

JumpPrograms == { JumpScenario, JumpNotTaken }

\* loadProgram(program, 0) before the first step() after construction or reset()
LoadFresh ==
    /\ nsteps = 0
    /\ \E program \in JumpPrograms : LoadProgram(program, 0)

NextJump == LoadFresh \/ Step \/ Reset \/ FireClear

SpecJump == Init /\ [][NextJump]_vars

----------------------------------------------------------------------------
(* The assembler as a function: quickAssemble applied to texts of up to    *)
(* MaxLines lines drawn from AsmLines, and to the example text.  Each line *)
(* is listed with the program bytes and the data entry it stands for.      *)

MaxLines == 2

AsmLines ==
    <<
       [text |-> << <<"L","O","A","D">>, <<"1","0">> >>,
        bytes |-> <<LOAD, 10>>, data |-> << >>],
       [text |-> << <<"A","D","D">>, <<"1","1">> >>,
        bytes |-> <<ADD, 11>>, data |-> << >>],
       [text |-> << <<"O","U","T">> >>,
        bytes |-> <<OUT>>, data |-> << >>],
       [text |-> << <<"S","T","O","R","E">>, <<"1","2">> >>,
        bytes |-> <<STORE, 12>>, data |-> << >>],
       [text |-> << <<"H","A","L","T">> >>,
        bytes |-> <<HALT>>, data |-> << >>],
       [text |-> << <<"D","A","T","A">>, <<"1","0">>, <<"7">> >>,
        bytes |-> << >>, data |-> <<10, 7>>],
       [text |-> << <<"D","A","T","A">>, <<"1","1">>, <<"3">> >>,
        bytes |-> << >>, data |-> <<11, 3>>],
       [text |-> << <<"D","A","T","A">>, <<"1","0">>, <<"9">> >>,
        bytes |-> << >>, data |-> <<10, 9>>],
       [text |-> << <<"F","O","O">>, <<"9">> >>,
        bytes |-> << >>, data |-> << >>],
       [text |-> << <<"j","z">>, <<"6">> >>,
        bytes |-> <<JZ, 6>>, data |-> << >>],
       [text |-> << <<"N","O","P">>, <<"5">> >>,
        bytes |-> <<NOP, 5>>, data |-> << >>],
       [text |-> << <<"J","m","p">>, <<"3","0","0">>, <<"1">> >>,
        bytes |-> <<JMP, 300>>, data |-> << >>]
    >>

\* the default text of the assembler box, as indexes into AsmLines
ExampleInput == << 1, 2, 3, 4, 5, 6, 7 >>

AsmInputs ==
    { ExampleInput } \cup UNION { [1..n -> 1..Len(AsmLines)] : n \in 1..MaxLines }

\* the lines of an input
TextOf(input) == [i \in 1..Len(input) |-> AsmLines[input[i]].text]

\* quickAssemble(lines), called once on the new machine
Assemble(input) ==
    /\ op = "new"
    /\ ret' = quickAssemble(TextOf(input))
    /\ op' = "quickAssemble"
    /\ args' = << TextOf(input), input >>
    /\ trace' = << >>
    /\ UNCHANGED <<mem, cpuVars, lines, pendingClears, uiVars, nsteps, aluSinceReset,
                   nwrites, auxVars>>

NextAsm == \E input \in AsmInputs : Assemble(input)

SpecAsm == Init /\ [][NextAsm]_vars

----------------------------------------------------------------------------
(* The channel with its subscribers: callbacks are registered on the new   *)
(* bus, then a program is loaded at address 0 and stepped.                 *)

MaxListeners == 2

\* a program with every kind of channel transaction and a non-zero ACC
BusProgram == << LOAD, 0, STORE, 9, ADD, 9, SUB, 1, HALT >>

BusPrograms == { BusProgram, JumpScenario }

\* bus.onChange(cb): the k-th callback registered is named k
Subscribe ==
    /\ nwrites = 0
    /\ Len(listeners) < MaxListeners
    /\ listeners' = Append(listeners, Len(listeners) + 1)
    /\ op' = "onChange"
    /\ args' = << Len(listeners) + 1 >>
    /\ trace' = << >>
    /\ UNCHANGED <<mem, cpuVars, lines, pendingClears, uiVars, ret, nsteps, aluSinceReset,
                   nwrites, refm>>

\* loadProgram(program, 0) before the first step()
BusLoad ==
    /\ nsteps = 0
    /\ \E program \in BusPrograms : LoadProgram(program, 0)

NextBus == Subscribe \/ BusLoad \/ Step \/ Reset \/ FireClear

SpecBus == Init /\ [][NextBus]_vars

----------------------------------------------------------------------------
(* The reference machine of the program-counter question: the same         *)
(* instruction set with the PC reduced modulo the capacity after every     *)
(* advance and jump.  It runs beside the CPU on the same loads, steps and  *)
(* resets.                                                                 *)

\* the reference machine's memory access
RefCell(m, addr) == m[addr % RAMSize]

\* one step of the reference machine
RefStepOf(st) ==
    IF st.halted THEN st
    ELSE LET instr == RefCell(st.mem, st.PC)
             pc1 == (st.PC + 1) % RAMSize
             addr == RefCell(st.mem, pc1)
             pc2 == (pc1 + 1) % RAMSize
             val == RefCell(st.mem, addr)
             fetched == [st EXCEPT !.IR = instr, !.PC = pc1]
         IN  CASE instr = LOAD ->
                    [fetched EXCEPT !.PC = pc2, !.ACC = val, !.zero = (val = 0)]
               [] instr = STORE ->
                    [fetched EXCEPT !.PC = pc2, !.mem[addr % RAMSize] = st.ACC % 256]
               [] instr = ADD ->
                    [fetched EXCEPT !.PC = pc2, !.ACC = (st.ACC + val) % 256,
                                    !.zero = ((st.ACC + val) % 256 = 0)]
               [] instr = SUB ->
                    [fetched EXCEPT !.PC = pc2, !.ACC = (st.ACC - val) % 256,
                                    !.zero = ((st.ACC - val) % 256 = 0)]
               [] instr = JMP ->
                    [fetched EXCEPT !.PC = addr % RAMSize]
               [] instr = JZ ->
                    [fetched EXCEPT !.PC = IF st.zero THEN addr % RAMSize ELSE pc2]
               [] instr = HALT ->
                    [fetched EXCEPT !.halted = TRUE]
               [] OTHER -> fetched

\* reset() of the reference machine
RefResetOf(st) ==
    [st EXCEPT !.PC = 0, !.ACC = 0, !.IR = 0, !.zero = FALSE, !.halted = FALSE]

RECURSIVE RefLoadOf(_, _, _, _)
\* loadProgram(program, start) of the reference machine, from byte i on
RefLoadOf(st, program, start, i) ==
    IF i > Len(program) THEN [st EXCEPT !.PC = start % RAMSize]
    ELSE RefLoadOf([st EXCEPT !.mem[(start + i - 1) % RAMSize] = program[i] % 256],
                   program, start, i + 1)

\* a program that jumps to a target beyond the capacity
FarJump == << JMP, 130, LOAD, 1, HALT >>

RefPrograms == Programs \cup { FarJump }

\* cpu.step() on both machines
StepBoth ==
    /\ StepBound
    /\ CpuStep
    /\ refm' = RefStepOf(refm)
    /\ op' = "step"
    /\ args' = << >>
    /\ UNCHANGED <<uiVars, nwrites, listeners>>

\* cpu.reset() on both machines
ResetBoth ==
    /\ ResetRegs
    /\ refm' = RefResetOf(refm)
    /\ op' = "reset"
    /\ args' = << >>
    /\ trace' = << >>
    /\ UNCHANGED <<mem, lines, pendingClears, uiVars, ret, nwrites, listeners>>

\* cpu.loadProgram(program, start) on both machines, before the first step()
LoadBoth(program, start) ==
    /\ nsteps = 0
    /\ nwrites < MaxWrites
    /\ nwrites' = nwrites + 1
    /\ mem' = WriteAll(mem, program, start, 1)
    /\ PC' = start
    /\ refm' = RefLoadOf(refm, program, start, 1)
    /\ op' = "loadProgram"
    /\ args' = << program, start >>
    /\ trace' = << >>
    /\ UNCHANGED <<ACC, IR, zero, halted, lines, pendingClears, uiVars, ret, nsteps,
                   aluSinceReset, listeners>>

NextRef ==
    \/ StepBoth
    \/ ResetBoth
    \/ \E program \in RefPrograms, start \in Starts : LoadBoth(program, start)
    \/ FireClear

SpecRef == Init /\ [][NextRef]_vars

----------------------------------------------------------------------------
(* Properties *)

\* the last operation was a call of cpu.step()
StepCalled == op \in { "step", "stepOnce", "tick" }

\* that call got past the early return
StepExecuted == StepCalled /\ ret # HaltSentinel

\* the onStep calls of the last operation
Ticks == SelectSeq(trace, LAMBDA e : e.ev = "tick")

\* the bus notifications of the last operation
Notifications == SelectSeq(trace, LAMBDA e : e.ev = "bus")

\* the action name the last executed step gave to _tick
LastAction == Ticks[1].action[1]

\* the PC the last executed step fetched its opcode at
FetchedAt == Notifications[1].lines.addr[1]

TwoByte == { "LOAD", "STORE", "ADD", "SUB", "JZ (not taken)" }
Jumped == { "JMP", "JZ (taken)" }

\* C1: a step() call on a halted CPU returns the sentinel {type: "HALT"} and
\* leaves PC, ACC, IR, the zero flag, the halted flag and every memory cell
\* unchanged, however many such calls follow the HALT.
C1_HaltingIsTerminal ==
    [][(halted /\ nsteps' = nsteps + 1)
          => (ret' = HaltSentinel /\ UNCHANGED <<PC, ACC, IR, zero, halted, mem>>)]_vars

\* C1 witness: at least two step() calls have been made on the halted CPU
C1_Witness ==
    /\ op = "step" /\ halted /\ ret = HaltSentinel
    /\ IR = HALT /\ nsteps >= 3

\* C2 as stated: a step that does not jump leaves PC below the capacity
\* (the advance past address N-1 gives 0).
C2_SequentialAdvanceWraps ==
    (StepExecuted /\ LastAction \notin Jumped) => PC < RAMSize

\* C2 amended: a step that does not jump leaves PC at the fetch address plus
\* the instruction length, unreduced; after the last byte is fetched at
\* address N-1 the PC is N.
C2_SequentialAdvanceUnreduced ==
    (StepExecuted /\ LastAction \notin Jumped)
        => LET length == IF LastAction \in TwoByte THEN 2 ELSE 1
           IN  /\ PC = FetchedAt + length
               /\ (FetchedAt + length - 1 = RAMSize - 1 => PC = RAMSize)

\* C2 witness: a two-byte instruction took its operand from cell N-1 and left PC = N
C2_Witness ==
    /\ StepExecuted /\ LastAction \in TwoByte
    /\ FetchedAt = RAMSize - 2
    /\ PC = RAMSize

\* C3: after Assemble & Load every address of the assembled data map holds
\* its data value mod 256, also inside the program bytes.
C3_DataOverwritesProgram ==
    op = "assemble"
        => LET data == Assembled[args[1]].data
           IN  \A i \in 1..Len(data) : RAMRead(mem, data[i][1]) = data[i][2] % 256

\* C4: when resetAll or Assemble & Load has run, no interval timer is live.
C4_SchedulerCanceledOnMutation ==
    op \in { "resetAll", "assemble" } => timers = {}

\* C5 as stated: every step() call invokes the step observer exactly once.
C5_OneTickPerCall ==
    StepCalled => Len(Ticks) = 1

\* C5 amended: a step() call on a CPU that is not halted invokes the step
\* observer exactly once, and a call on a halted CPU does not invoke it.
C5_OneTickPerExecutedStep ==
    StepCalled => Len(Ticks) = (IF ret = HaltSentinel THEN 0 ELSE 1)

\* C5 witness: the step that executed HALT invoked the observer once
C5_Witness ==
    /\ StepExecuted /\ halted
    /\ Len(Ticks) = 1 /\ LastAction = "HALT"

\* C6: in every notification (one follows every change of the channel) each
\* non-null field was set by the send() that caused it.
C6_OnlyLatestTransaction ==
    \A i \in 1..Len(Notifications) :
        \A f \in Fields :
            Notifications[i].lines[f] # << >> => f \in Notifications[i].sent

\* C7: at most one interval timer is live.
C7_AtMostOneTimer ==
    Cardinality(timers) <= 1

\* C7 witness: the effect replaced an earlier timer by a new one
C7_Witness ==
    /\ op = "effect" /\ running
    /\ nextId >= 3
    /\ timers = { intervalRef[1] }

\* C8: after a step() that executed LOAD, ADD or SUB, and in every state in
\* which one of them has executed since the last reset(), the zero flag is
\* set exactly when ACC is 0.
C8_ZeroFlag ==
    /\ (StepExecuted /\ LastAction \in { "LOAD", "ADD", "SUB" }) => (zero <=> ACC = 0)
    /\ aluSinceReset => (zero <=> ACC = 0)

\* C8 witness: a SUB of a nonzero operand from a nonzero accumulator gave 0
C8_Witness ==
    /\ StepExecuted /\ LastAction = "SUB"
    /\ mem[3] = 200 /\ ACC = 0 /\ zero

\* C9: after write(a, v), read(a + k*N) for k in {-1, 0, 1} returns v mod 256,
\* a value in 0..255; reads at congruent addresses return the same cell.
C9_WriteReadWraps ==
    /\ op = "write" =>
          \A k \in Congruent :
              /\ RAMRead(mem, args[1] + k * RAMSize) = args[2] % 256
              /\ RAMRead(mem, args[1] + k * RAMSize) \in 0..255
    /\ op = "read" =>
          \A k \in Congruent : RAMRead(mem, args[1] + k * RAMSize) = ret

\* C9 witness: a value above 255 written at a negative address is read back
\* one capacity higher
C9_Witness ==
    /\ op = "write" /\ args = << -3, 257 >>
    /\ RAMRead(mem, RAMSize - 3) = 1

\* the memory after loadProgram(sampleProgram, 0) and the data preload
ScenarioLoaded ==
    /\ \A i \in 1..Len(sampleProgram) : mem[i - 1] = sampleProgram[i]
    /\ mem[10] = 7 /\ mem[11] = 3

\* C10: with the sample program and data loaded after a reset, the fifth
\* step() leaves ACC = 10, memory[12] = 10, halted, zero flag clear, and the
\* CPU is not halted after any of the first four.
C10_SampleProgramRuns ==
    (mounted /\ ScenarioLoaded)
        => /\ nsteps = 5 => (ACC = 10 /\ mem[12] = 10 /\ halted /\ ~zero)
           /\ nsteps \in 1..4 => ~halted

\* C10 witness: the fifth step of the sample program has just run
C10_Witness ==
    /\ mounted /\ ScenarioLoaded /\ StepExecuted
    /\ nsteps = 5 /\ halted /\ ACC = 10 /\ mem[12] = 10

\* the memory holds the jump scenario, loaded at address 0
JumpScenarioLoaded == \A i \in 1..Len(JumpScenario) : mem[i - 1] = JumpScenario[i]

\* C11: a step() that executes JZ sets PC to the operand when the zero flag
\* is set and to the old PC + 2 otherwise, and changes neither ACC, the zero
\* flag nor the memory; in the scenario [LOAD,5, JZ,6, HALT, NOP, NOP, JMP,2]
\* step 1 yields ACC = 0 with the zero flag set and step 2 yields PC = 6.
C11_ConditionalJump ==
    /\ [][(StepCalled' /\ ~halted /\ RAMRead(mem, PC) = JZ)
            => /\ PC' = IF zero THEN RAMRead(mem, PC + 1) ELSE PC + 2
               /\ UNCHANGED <<ACC, zero, mem>>]_vars
    /\ [](JumpScenarioLoaded /\ nsteps = 1 => ACC = 0 /\ zero)
    /\ [](JumpScenarioLoaded /\ nsteps = 2 => PC = 6)

C11_Witness ==
    /\ JumpScenarioLoaded
    /\ nsteps = 2
    /\ StepExecuted
    /\ LastAction = "JZ (taken)"
    /\ PC = 6

\* the branch that is not taken is exercised as well
C11_WitnessNotTaken ==
    /\ StepExecuted
    /\ LastAction = "JZ (not taken)"
    /\ PC = 4

\* C12: reset() restores PC = 0, ACC = 0, IR = 0, zero = false and
\* halted = false from any reachable state, changes no memory cell, and a
\* second reset() changes nothing more.
C12_ResetRestores ==
    /\ [][op' = "reset"
            => /\ PC' = 0 /\ ACC' = 0 /\ IR' = 0 /\ ~zero' /\ ~halted'
               /\ mem' = mem]_vars
    /\ [][(op = "reset" /\ op' = "reset") => UNCHANGED <<cpuVars, mem>>]_vars

\* a reset() of a halted CPU that holds a loaded program
C12_Witness ==
    /\ op = "reset"
    /\ ret = HaltSentinel
    /\ nwrites > 0
    /\ \E c \in DOMAIN mem : mem[c] # 0
    /\ ~halted /\ PC = 0

\* C13: halted implies IR = 255; halted is entered only by a step() that
\* fetches HALT and left only by reset(): no step(), loadProgram(), memory
\* write, memory clear or bus clear changes halted from true to false.
C13_HaltedOnlyByHaltUntilReset ==
    /\ [](halted => IR = HALT)
    /\ [][(~halted /\ halted') => (StepCalled' /\ RAMRead(mem, PC) = HALT)]_vars
    /\ [][(halted /\ ~halted') => op' = "reset"]_vars

\* a halted CPU after a later memory write by the driver
C13_Witness ==
    /\ halted
    /\ IR = HALT
    /\ op = "write"

\* C14: every memory cell and ACC are in 0..255 after any sequence of
\* loadProgram, step, reset, memory write and memory clear with arbitrary
\* integer arguments.
C14_ByteRange ==
    /\ \A c \in DOMAIN mem : mem[c] \in 0..255
    /\ ACC \in 0..255

\* a SUB below zero wrapped into the byte range
C14_Witness ==
    /\ StepExecuted
    /\ LastAction = "SUB"
    /\ ACC = 254

\* the greatest member of a non-empty set of integers
MaxOf(S) == CHOOSE x \in S : \A y \in S : y <= x

\* the cell that byte i of a program loaded at start goes to
CellOf(start, i) == (start + i - 1) % RAMSize

\* C18: loadProgram(bytes, start) leaves bytes[i] mod 256 in cell
\* (start + i) wrapped (the last such byte, were two to share a cell), sets
\* PC to start, and leaves every other cell and ACC, IR, zero and halted
\* unchanged (a halted CPU stays halted).
C18_LoadProgramFrame ==
    [][op' = "loadProgram"
        => /\ PC' = args'[2]
           /\ \A i \in 1..Len(args'[1]) :
                  (\A j \in (i + 1)..Len(args'[1]) : CellOf(args'[2], j) # CellOf(args'[2], i))
                  => mem'[CellOf(args'[2], i)] = args'[1][i] % 256
           /\ \A c \in DOMAIN mem \ { CellOf(args'[2], i) : i \in 1..Len(args'[1]) } :
                  mem'[c] = mem[c]
           /\ UNCHANGED <<ACC, IR, zero, halted>>]_vars

\* a program loaded below address 0 into a halted CPU
C18_Witness ==
    /\ op = "loadProgram"
    /\ args[2] = -2
    /\ halted
    /\ ACC # 0
    /\ mem[RAMSize - 2] = args[1][1] % 256

\* the program of JumpPrograms that was loaded last
LoadedProgram == CHOOSE program \in JumpPrograms : mem[1] = program[2]

\* the machine right after reset() and loadProgram(program, 0) into an empty memory
FreshWith(program) ==
    [mem |-> WriteAll([c \in 0..(RAMSize - 1) |-> 0], program, 0, 1),
     PC |-> 0, ACC |-> 0, IR |-> 0, zero |-> FALSE, halted |-> FALSE]

RECURSIVE ClearFreeRun(_, _)
\* k calls of step() on a machine whose channel clears never fire
ClearFreeRun(st, k) ==
    IF k = 0 THEN st
    ELSE IF st.halted THEN ClearFreeRun(st, k - 1)
    ELSE LET r == Exec(st.mem, st.PC, st.ACC, st.zero)
         IN  ClearFreeRun([mem |-> r.mem, PC |-> r.PC, ACC |-> r.ACC, IR |-> r.IR,
                           zero |-> r.zero, halted |-> r.halted], k - 1)

\* C15: a deferred channel clear changes only the three channel fields, never
\* PC, ACC, IR, the zero flag, halted or the memory; after k steps of a
\* loaded program the architectural state is the one of a run in which no
\* clear fires, wherever the clears fell between the steps.
C15_ClearIsChannelOnly ==
    /\ [][op' = "clear" => (UNCHANGED <<mem, cpuVars>> /\ lines' = NoLines)]_vars
    /\ [](nwrites > 0
            => LET st == ClearFreeRun(FreshWith(LoadedProgram), nsteps)
               IN  <<mem, PC, ACC, IR, zero, halted>>
                     = <<st.mem, st.PC, st.ACC, st.IR, st.zero, st.halted>>)

\* a clear fired late, after the second step, with another one still pending
C15_Witness ==
    /\ op = "clear"
    /\ pendingClears > 0
    /\ nsteps = 2
    /\ PC = 6
    /\ lines = NoLines

RECURSIVE ConcatBytes(_, _)
\* the program bytes the lines of an input stand for, from line i on
ConcatBytes(input, i) ==
    IF i > Len(input) THEN << >>
    ELSE AsmLines[input[i]].bytes \o ConcatBytes(input, i + 1)

\* the positions of the data directives of an input for an address
DataLinesFor(input, addr) ==
    { i \in 1..Len(input) : AsmLines[input[i]].data # << >> /\ AsmLines[input[i]].data[1] = addr }

\* the addresses named by the data directives of an input
DataAddrs(input) ==
    { AsmLines[input[i]].data[1] : i \in { j \in 1..Len(input) : AsmLines[input[j]].data # << >> } }

\* C16: the assembled program is the concatenation in line order of
\* [opcode] or [opcode, operand] of the lines with a known mnemonic, data
\* directives and unknown mnemonics add no byte, and the data map gives each
\* address of a data directive the value of its last directive; the example
\* text assembles to [1,10,3,11,7,2,12,255] with data {10:7, 11:3}.
C16_AssembleContract ==
    op = "quickAssemble"
    => LET input == args[2]
       IN  /\ ret.prog = ConcatBytes(input, 1)
           /\ { ret.data[i][1] : i \in 1..Len(ret.data) } = DataAddrs(input)
           /\ Len(ret.data) = Cardinality(DataAddrs(input))
           /\ \A i \in 1..Len(ret.data) :
                  ret.data[i][2]
                    = AsmLines[input[MaxOf(DataLinesFor(input, ret.data[i][1]))]].data[2]
           /\ (args[1] = ExampleText
                 => /\ ret.prog = << 1, 10, 3, 11, 7, 2, 12, 255 >>
                    /\ ret.data = << <<10, 7>>, <<11, 3>> >>)

\* two data directives for the same address: the later value is kept
C16_Witness ==
    /\ op = "quickAssemble"
    /\ args[2] = << 6, 8 >>
    /\ ret.data = << <<10, 9>> >>

\* the example text has been assembled
C16_WitnessExample ==
    /\ op = "quickAssemble"
    /\ args[1] = ExampleText
    /\ Len(ret.prog) = 8

\* event i of the trace is a channel notification with this control tag and address
IsNotification(tr, i, control, addr) ==
    /\ Len(tr) >= i
    /\ tr[i].ev = "bus"
    /\ tr[i].lines.control = << control >>
    /\ tr[i].lines.addr = << addr >>

\* C17: a non-halted step() first notifies FETCH with the PC before the step,
\* then READ at the operand address for LOAD/ADD/SUB or WRITE at the operand
\* address with data = ACC for STORE; the step-observer callback comes after
\* all of the step's notifications and the clear of the step only later, as
\* an event of its own; every notification calls the subscribers in
\* registration order.
C17_EventOrder ==
    /\ [][(StepCalled' /\ ~halted)
            => LET instr == RAMRead(mem, PC)
                   operand == RAMRead(mem, PC + 1)
                   tr == trace'
               IN  /\ IsNotification(tr, 1, "FETCH", PC)
                   /\ instr \in { LOAD, ADD, SUB } => IsNotification(tr, 2, "READ", operand)
                   /\ instr = STORE => /\ IsNotification(tr, 2, "WRITE", operand)
                                        /\ tr[2].lines.data = << ACC >>
                   /\ tr[Len(tr)].ev = "tick"
                   /\ \A i \in 1..(Len(tr) - 1) : tr[i].ev = "bus" /\ tr[i].lines # NoLines
                   /\ pendingClears' = pendingClears + 1]_vars
    /\ [][op' = "clear" => /\ pendingClears > 0
                            /\ Len(trace') = 1
                            /\ trace'[1].lines = NoLines]_vars
    /\ [](\A i \in 1..Len(trace) :
            trace[i].ev = "bus" => trace[i].calls = [k \in 1..Len(listeners) |-> k])

\* a STORE step with two subscribers
C17_Witness ==
    /\ StepExecuted
    /\ LastAction = "STORE"
    /\ Len(listeners) = 2
    /\ Len(trace) = 3
    /\ trace[2].lines.data = << 1 >>
    /\ trace[2].calls = << 1, 2 >>

\* C19: run side by side on the same loads, steps and resets, the CPU with
\* its unreduced PC and the reference machine that reduces the PC modulo
\* the capacity agree on ACC, IR, the zero flag, halted and every memory
\* cell, and their PCs are congruent modulo the capacity.
C19_UnreducedPCEquivalent ==
    /\ ACC = refm.ACC
    /\ IR = refm.IR
    /\ zero = refm.zero
    /\ halted = refm.halted
    /\ mem = refm.mem
    /\ refm.PC \in 0..(RAMSize - 1)
    /\ (PC - refm.PC) % RAMSize = 0

\* the instruction fetched after a jump to 130, with the PC beyond the capacity
C19_Witness ==
    /\ StepExecuted
    /\ LastAction = "LOAD"
    /\ FetchedAt = 130
    /\ PC = 132
    /\ refm.PC = 4
    /\ ACC = 130

\* run mode is on with a halted CPU, and the model's bounds leave room for
\* the next timer and the next tick
RunningHalted ==
    /\ running
    /\ halted
    /\ nsteps < MaxSteps
    /\ (timers # {} \/ nextId <= MaxTimers)

\* C20: a scheduled tick that finds or leaves the CPU halted sets running to
\* false; once the run-mode effect has run with running false no timer is
\* live, so no further scheduled step() occurs; and, with no reset, run
\* mode with a halted CPU always ends and its timer is canceled.
C20_RunStopsOnHalt ==
    /\ [][(op' = "tick" /\ halted') => ~running']_vars
    /\ [](~running /\ deps = << running, speed >> => timers = {})
    /\ (RunningHalted ~> ~running)
    /\ ((~running /\ halted /\ timers # {}) ~> (timers = {} \/ running))

\* a tick on the halted CPU has turned run mode off
C20_Witness ==
    /\ op = "tick"
    /\ ret = HaltSentinel
    /\ halted
    /\ ~running
    /\ timers # {}

====
